---- MODULE Spec2Model ----
(***************************************************************************)
(* Blackjack Assistant: the Game state tracker (src/blackjack/game.py),    *)
(* the strategy engines (src/blackjack/strategy.py), the command-line      *)
(* driver (src/blackjack_assistant.py, src/blackjack/ui.py) and the        *)
(* click/voice driven GUI (src/blackjack/gui.py).                          *)
(*                                                                         *)
(* A card token is a sequence of one-character strings, a rank is a        *)
(* string.  A Game object is the record held by the variable game.         *)
(* Floats are modelled as exact fractions in lowest terms; floating-point  *)
(* rounding is not modelled.  Game.deck (the list of tokens built by       *)
(* reset_deck) is never read by the program; it is the operator Deck and   *)
(* is not carried in the record.  Widgets and label texts are not          *)
(* modelled.                                                               *)
(***************************************************************************)
EXTENDS Integers, Sequences, FiniteSets, TLC

VARIABLES game, card_counts, deck_var, pc, added, op, prev, ret

vars == <<game, card_counts, deck_var, pc, added, op, prev, ret>>

----------------------------------------------------------------------------
(* Bounds of the model *)

\* cards passed to the Game's mutators per shoe in the driver specifications
MaxCards == 3
\* largest deck count entered at the command-line prompt (the prompt takes 1..8)
MaxDecks == 1
\* longest player hand drawn in SpecQuery
MaxHand == 4
\* longest player hand drawn in SpecStrategy
MaxStrategyHand == 3

----------------------------------------------------------------------------
(* Card *)

ranks == <<"2", "3", "4", "5", "6", "7", "8", "9", "10", "J", "Q", "K", "A">>

suits == <<"C", "D", "H", "S">>

RankSet == {ranks[i] : i \in 1..Len(ranks)}

\* the characters of a rank string
Chars(rank) ==
    CASE rank = "10" -> <<"1", "0">>
      [] OTHER -> <<rank>>

rank_values == [r \in RankSet |->
    CASE r = "2" -> 2 [] r = "3" -> 3 [] r = "4" -> 4 [] r = "5" -> 5
      [] r = "6" -> 6 [] r = "7" -> 7 [] r = "8" -> 8 [] r = "9" -> 9
      [] r = "10" -> 10 [] r = "J" -> 10 [] r = "Q" -> 10 [] r = "K" -> 10
      [] r = "A" -> 11]

NoCard == [rank |-> "None", suit |-> "", value |-> 0, is_ace |-> FALSE]

ValueError == [rank |-> "ValueError", suit |-> "", value |-> 0, is_ace |-> FALSE]

\* re.match(r'^([2-9]|10|[JQKA])([CDHS])$', card_str): '$' also matches just
\* before one trailing newline
FormatMatches(card_str) ==
    LET body == IF Len(card_str) > 0 /\ card_str[Len(card_str)] = "\n"
                THEN SubSeq(card_str, 1, Len(card_str) - 1)
                ELSE card_str
        suitSet == {suits[i] : i \in 1..Len(suits)}
    IN  \/ /\ Len(body) = 2
           /\ body[1] \in {"2", "3", "4", "5", "6", "7", "8", "9", "J", "Q", "K", "A"}
           /\ body[2] \in suitSet
        \/ /\ Len(body) = 3
           /\ body[1] = "1" /\ body[2] = "0"
           /\ body[3] \in suitSet

Card(card_str) ==
    IF ~FormatMatches(card_str) THEN ValueError
    ELSE LET rank == IF SubSeq(card_str, 1, 2) = <<"1", "0">> THEN "10" ELSE card_str[1]
             suit == IF SubSeq(card_str, 1, 2) = <<"1", "0">> THEN card_str[3] ELSE card_str[2]
         IN  [rank |-> rank, suit |-> suit, value |-> rank_values[rank],
              is_ace |-> (rank = "A")]

----------------------------------------------------------------------------
(* Game *)

\* self.deck as built by reset_deck
Deck(num_decks) ==
    [i \in 1..(IF num_decks > 0 THEN 52 * num_decks ELSE 0) |->
        Chars(ranks[(((i - 1) % 52) \div 4) + 1]) \o <<suits[((i - 1) % 4) + 1]>>]

\* reset_deck without "self.card_count = 0"
reset_deck_keeps_count(g) ==
    [g EXCEPT !.dealt_cards = <<>>, !.player_hand = <<>>, !.dealer_upcard = NoCard]

reset_deck(g) ==
    [g EXCEPT !.dealt_cards = <<>>, !.player_hand = <<>>,
              !.dealer_upcard = NoCard, !.card_count = 0]

NewGame(num_decks) ==
    reset_deck([num_decks |-> num_decks, dealt_cards |-> <<>>, player_hand |-> <<>>,
                dealer_upcard |-> NoCard, card_count |-> 0])

\* _update_card_count with "elif card.value == 10": aces are not counted
update_card_count_without_aces(g, card) ==
    IF card.value >= 2 /\ card.value <= 6
    THEN [g EXCEPT !.card_count = @ + 1]
    ELSE IF card.value = 10
         THEN [g EXCEPT !.card_count = @ - 1]
         ELSE g

update_card_count(g, card) ==
    IF card.value >= 2 /\ card.value <= 6
    THEN [g EXCEPT !.card_count = @ + 1]
    ELSE IF card.value >= 10 \/ card.is_ace
         THEN [g EXCEPT !.card_count = @ - 1]
         ELSE g

\* the three mutators: Card(card_str) is evaluated first, and when it raises
\* ValueError the call ends there with the Game as it was
add_dealt_card(g, card_str) ==
    LET card == Card(card_str)
    IN  IF card = ValueError THEN g
        ELSE update_card_count([g EXCEPT !.dealt_cards = Append(@, card)], card)

add_to_player_hand(g, card_str) ==
    LET card == Card(card_str)
    IN  IF card = ValueError THEN g
        ELSE update_card_count([g EXCEPT !.player_hand = Append(@, card)], card)

\* set_dealer_upcard that first takes back the count of the card it replaces
set_dealer_upcard_reversing(g, card_str) ==
    LET card == Card(card_str)
        old == g.dealer_upcard
        back == IF old.value >= 2 /\ old.value <= 6 THEN -1
                ELSE IF old.value >= 10 THEN 1 ELSE 0
    IN  IF card = ValueError THEN g
        ELSE update_card_count([g EXCEPT !.dealer_upcard = card,
                                         !.card_count = @ + back], card)

\* set_dealer_upcard that empties the slot before it parses the token
set_dealer_upcard_clearing_first(g, card_str) ==
    LET card == Card(card_str)
    IN  IF card = ValueError THEN [g EXCEPT !.dealer_upcard = NoCard]
        ELSE update_card_count([g EXCEPT !.dealer_upcard = card], card)

set_dealer_upcard(g, card_str) ==
    LET card == Card(card_str)
    IN  IF card = ValueError THEN g
        ELSE update_card_count([g EXCEPT !.dealer_upcard = card], card)

RECURSIVE SumValues(_)
SumValues(hand) ==
    IF hand = <<>> THEN 0 ELSE hand[1].value + SumValues(Tail(hand))

RECURSIVE CountAces(_)
CountAces(hand) ==
    IF hand = <<>> THEN 0
    ELSE (IF hand[1].is_ace THEN 1 ELSE 0) + CountAces(Tail(hand))

\* the loop with "while total >= 21 and aces > 0"
RECURSIVE AdjustForAces_from_21(_, _)
AdjustForAces_from_21(total, aces) ==
    IF total >= 21 /\ aces > 0
    THEN AdjustForAces_from_21(total - 10, aces - 1)
    ELSE [total |-> total, aces |-> aces]

\* the loop "while total > 21 and aces > 0"
RECURSIVE AdjustForAces(_, _)
AdjustForAces(total, aces) ==
    IF total > 21 /\ aces > 0
    THEN AdjustForAces(total - 10, aces - 1)
    ELSE [total |-> total, aces |-> aces]

\* get_player_hand_value with "if aces > 0 and total <= 21"
get_player_hand_value_soft_to_21(g) ==
    LET adj == AdjustForAces(SumValues(g.player_hand), CountAces(g.player_hand))
    IN  [total |-> adj.total, aces |-> adj.aces,
         is_soft |-> (adj.aces > 0 /\ adj.total <= 21)]

get_player_hand_value(g) ==
    LET adj == AdjustForAces(SumValues(g.player_hand), CountAces(g.player_hand))
    IN  [total |-> adj.total, aces |-> adj.aces,
         is_soft |-> (adj.aces > 0 /\ adj.total <= 11)]

\* can_split comparing the cards' values instead of their ranks
can_split_by_value(g) ==
    IF Len(g.player_hand) # 2 THEN FALSE
    ELSE g.player_hand[1].value = g.player_hand[2].value

can_split(g) ==
    IF Len(g.player_hand) # 2 THEN FALSE
    ELSE g.player_hand[1].rank = g.player_hand[2].rank

can_double_down(g) == Len(g.player_hand) = 2

get_running_count(g) == g.card_count

----------------------------------------------------------------------------
(* Floats as exact fractions in lowest terms with a positive denominator *)

Abs(n) == IF n < 0 THEN -n ELSE n

RECURSIVE GCD(_, _)
GCD(a, b) == IF b = 0 THEN a ELSE GCD(b, a % b)

\* the outcome of a division by zero (Python raises ZeroDivisionError)
ZeroDivisionError == [num |-> 0, den |-> 0]

Frac(n, d) ==
    IF d = 0 THEN ZeroDivisionError
    ELSE LET k == GCD(Abs(n), Abs(d))
             s == IF d < 0 THEN -1 ELSE 1
         IN  [num |-> (s * n) \div k, den |-> (s * d) \div k]

\* a / b for fractions a and b
FracDiv(a, b) == Frac(a.num * b.den, a.den * b.num)

----------------------------------------------------------------------------
(* Game queries *)

\* get_true_count with "if decks_remaining == 0"
get_true_count_zero_only(g) ==
    LET cards_per_deck == 52
        total_cards == g.num_decks * cards_per_deck
        cards_dealt == Len(g.dealt_cards) + Len(g.player_hand)
                       + (IF g.dealer_upcard # NoCard THEN 1 ELSE 0)
        decks_remaining == Frac(total_cards - cards_dealt, cards_per_deck)
    IN  IF decks_remaining.num = 0 THEN Frac(0, 1)
        ELSE FracDiv(Frac(g.card_count, 1), decks_remaining)

get_true_count(g) ==
    LET cards_per_deck == 52
        total_cards == g.num_decks * cards_per_deck
        cards_dealt == Len(g.dealt_cards) + Len(g.player_hand)
                       + (IF g.dealer_upcard # NoCard THEN 1 ELSE 0)
        decks_remaining == Frac(total_cards - cards_dealt, cards_per_deck)
    IN  IF decks_remaining.num <= 0 THEN Frac(0, 1)
        ELSE FracDiv(Frac(g.card_count, 1), decks_remaining)

\* the keys of the dictionary returned by get_remaining_cards, in order
remaining_keys == <<"2", "3", "4", "5", "6", "7", "8", "9", "10", "A">>

RemainingKeySet == {remaining_keys[i] : i \in 1..Len(remaining_keys)}

\* the loop "for card in all_cards": each card takes one from its key, J, Q and K
\* from the key "10"
DeductCards_by_rank(cards_per_rank, all_cards) ==
    [k \in DOMAIN cards_per_rank |->
        cards_per_rank[k]
        - Cardinality({i \in 1..Len(all_cards) : all_cards[i].rank = k})]

DeductCards(cards_per_rank, all_cards) ==
    [k \in DOMAIN cards_per_rank |->
        cards_per_rank[k]
        - Cardinality({i \in 1..Len(all_cards) :
                         (IF all_cards[i].rank \in {"J", "Q", "K"}
                          THEN "10" ELSE all_cards[i].rank) = k})]

get_remaining_cards(g) ==
    LET cards_per_rank == [k \in RemainingKeySet |->
                              IF k = "10" THEN 16 * g.num_decks ELSE 4 * g.num_decks]
        all_cards == g.dealt_cards \o g.player_hand
                     \o (IF g.dealer_upcard # NoCard THEN <<g.dealer_upcard>> ELSE <<>>)
    IN  DeductCards(cards_per_rank, all_cards)

\* str.isdigit and int() on the keys of the remaining-cards dictionary
isdigit(rank) == rank # "A"

int(rank) ==
    CASE rank = "2" -> 2 [] rank = "3" -> 3 [] rank = "4" -> 4 [] rank = "5" -> 5
      [] rank = "6" -> 6 [] rank = "7" -> 7 [] rank = "8" -> 8 [] rank = "9" -> 9
      [] rank = "10" -> 10

\* "if int(rank) if rank.isdigit() else 10 > bust_threshold": Python parses the
\* condition as  int(rank) if rank.isdigit() else (10 > bust_threshold),
\* and a non-zero integer is true
BustCondition(rank, bust_threshold) ==
    IF isdigit(rank) THEN int(rank) # 0 ELSE 10 > bust_threshold

RECURSIVE SumCounts(_, _, _)
SumCounts(remaining_cards, i, bust_threshold) ==
    IF i > Len(remaining_keys) THEN 0
    ELSE (IF BustCondition(remaining_keys[i], bust_threshold)
          THEN remaining_cards[remaining_keys[i]] ELSE 0)
         + SumCounts(remaining_cards, i + 1, bust_threshold)

RECURSIVE SumAll(_, _)
SumAll(remaining_cards, i) ==
    IF i > Len(remaining_keys) THEN 0
    ELSE remaining_cards[remaining_keys[i]] + SumAll(remaining_cards, i + 1)

\* calculate_probability_of_bust with "if hand_value > 21"
calculate_probability_of_bust_over_21(g) ==
    LET hand_value == get_player_hand_value(g).total
        bust_threshold == 21 - hand_value
        remaining_cards == get_remaining_cards(g)
        total_remaining == SumAll(remaining_cards, 1)
        bust_cards == SumCounts(remaining_cards, 1, bust_threshold)
    IN  IF hand_value > 21 THEN Frac(1, 1)
        ELSE IF total_remaining = 0 THEN Frac(0, 1)
        ELSE Frac(bust_cards, total_remaining)

calculate_probability_of_bust(g) ==
    LET hand_value == get_player_hand_value(g).total
        bust_threshold == 21 - hand_value
        remaining_cards == get_remaining_cards(g)
        total_remaining == SumAll(remaining_cards, 1)
        bust_cards == SumCounts(remaining_cards, 1, bust_threshold)
    IN  IF hand_value >= 21 THEN Frac(1, 1)
        ELSE IF total_remaining = 0 THEN Frac(0, 1)
        ELSE Frac(bust_cards, total_remaining)

----------------------------------------------------------------------------
(* BasicStrategy (src/blackjack/strategy.py).  A recommendation is a record; *)
(* its two texts are modelled by their fixed wording, without the figures    *)
(* formatted into them.                                                      *)

\* a < b for fractions with positive denominators
FracLess(a, b) == a.num * b.den < b.num * a.den

\* the outcome of reading an attribute of None
AttributeError == [error |-> "AttributeError"]

\* the hard table with the row of 16 like the rows of 13 to 15
hard_hands_16_hits_from_7 ==
    [t \in 2..21 |-> [i \in 2..11 |->
        IF t >= 17 THEN "S"
        ELSE IF t >= 13 THEN (IF i < 7 THEN "S" ELSE "H")
        ELSE IF t = 12 THEN (IF 4 <= i /\ i < 7 THEN "S" ELSE "H")
        ELSE IF t = 11 THEN "D"
        ELSE IF t = 10 THEN (IF i < 10 THEN "D" ELSE "H")
        ELSE IF t = 9 THEN (IF 3 <= i /\ i < 7 THEN "D" ELSE "H")
        ELSE "H"]]

hard_hands ==
    [t \in 2..21 |-> [i \in 2..11 |->
        IF t >= 17 THEN "S"
        ELSE IF t = 16 THEN (IF i = 11 THEN "H" ELSE "S")
        ELSE IF t >= 13 THEN (IF i < 7 THEN "S" ELSE "H")
        ELSE IF t = 12 THEN (IF 4 <= i /\ i < 7 THEN "S" ELSE "H")
        ELSE IF t = 11 THEN "D"
        ELSE IF t = 10 THEN (IF i < 10 THEN "D" ELSE "H")
        ELSE IF t = 9 THEN (IF 3 <= i /\ i < 7 THEN "D" ELSE "H")
        ELSE "H"]]

soft_hands ==
    [t \in 13..20 |-> [i \in 2..11 |->
        IF t >= 19 THEN "S"
        ELSE IF t = 18 THEN (IF i < 9 THEN "S" ELSE "H")
        ELSE IF t = 17 THEN (IF 3 <= i /\ i < 7 THEN "D" ELSE "H")
        ELSE IF t >= 15 THEN (IF 4 <= i /\ i < 7 THEN "D" ELSE "H")
        ELSE (IF 5 <= i /\ i < 7 THEN "D" ELSE "H")]]

\* the pair table with the row of aces hitting against a dealer ace
pair_hands_aces_hit_ace ==
    [r \in {"A", "10", "9", "8", "7", "6", "5", "4", "3", "2"} |-> [i \in 2..11 |->
        CASE r = "A" -> (IF i = 11 THEN "H" ELSE "P")
          [] r = "10" -> "S"
          [] r = "9" -> (IF i \in {2, 3, 4, 5, 6, 8, 9} THEN "P" ELSE "S")
          [] r = "8" -> "P"
          [] r = "7" -> (IF i < 8 THEN "P" ELSE "H")
          [] r = "6" -> (IF i < 7 THEN "P" ELSE "H")
          [] r = "5" -> (IF i < 10 THEN "D" ELSE "H")
          [] r = "4" -> (IF i \in {5, 6} THEN "P" ELSE "H")
          [] r = "3" -> (IF i < 8 THEN "P" ELSE "H")
          [] r = "2" -> (IF i < 8 THEN "P" ELSE "H")]]

pair_hands ==
    [r \in {"A", "10", "9", "8", "7", "6", "5", "4", "3", "2"} |-> [i \in 2..11 |->
        CASE r = "A" -> "P"
          [] r = "10" -> "S"
          [] r = "9" -> (IF i \in {2, 3, 4, 5, 6, 8, 9} THEN "P" ELSE "S")
          [] r = "8" -> "P"
          [] r = "7" -> (IF i < 8 THEN "P" ELSE "H")
          [] r = "6" -> (IF i < 7 THEN "P" ELSE "H")
          [] r = "5" -> (IF i < 10 THEN "D" ELSE "H")
          [] r = "4" -> (IF i \in {5, 6} THEN "P" ELSE "H")
          [] r = "3" -> (IF i < 8 THEN "P" ELSE "H")
          [] r = "2" -> (IF i < 8 THEN "P" ELSE "H")]]

\* "Hit with ..." and the other explanations of BasicStrategy
BasicExplanation(action) ==
    CASE action = "H" -> "Hit with"
      [] action = "S" -> "Stand with"
      [] action = "D" -> "Double down with"
      [] action = "P" -> "Split"
      [] OTHER -> ""

\* the advice that follows the action
BasicAdvice(action, bust_probability) ==
    CASE action = "H" -> (IF FracLess(Frac(1, 2), bust_probability)
                          THEN "Warning: chance of busting if you hit."
                          ELSE "After hitting, re-evaluate based on your new total.")
      [] action = "D" -> "After doubling, you will receive exactly one more card and then must stand."
      [] action = "P" -> "After splitting, play each hand according to basic strategy."
      [] OTHER -> ""

\* BasicAction without the two "if action == D and not can_double" corrections
BasicAction_double_any_size(g) ==
    LET hv == get_player_hand_value(g)
        total == hv.total
        is_soft == hv.is_soft
        dealer_value == g.dealer_upcard.value
        splittable == can_split(g)
        can_double == can_double_down(g)
    IN  IF splittable /\ Len(g.player_hand) = 2
        THEN LET pair_card == g.player_hand[1].rank
             IN  IF pair_card \in DOMAIN pair_hands
                    /\ dealer_value \in DOMAIN pair_hands[pair_card]
                 THEN pair_hands[pair_card][dealer_value]
                 ELSE "H"
        ELSE IF is_soft /\ total \in DOMAIN soft_hands
                /\ dealer_value \in DOMAIN soft_hands[total]
        THEN LET action == soft_hands[total][dealer_value]
             IN  action
        ELSE IF total \in DOMAIN hard_hands
                /\ dealer_value \in DOMAIN hard_hands[total]
        THEN LET action == hard_hands[total][dealer_value]
             IN  action
        ELSE "H"

\* lines 104-128 of BasicStrategy.get_recommendation
BasicAction(g) ==
    LET hv == get_player_hand_value(g)
        total == hv.total
        is_soft == hv.is_soft
        dealer_value == g.dealer_upcard.value
        splittable == can_split(g)
        can_double == can_double_down(g)
    IN  IF splittable /\ Len(g.player_hand) = 2
        THEN LET pair_card == g.player_hand[1].rank
             IN  IF pair_card \in DOMAIN pair_hands
                    /\ dealer_value \in DOMAIN pair_hands[pair_card]
                 THEN pair_hands[pair_card][dealer_value]
                 ELSE "H"
        ELSE IF is_soft /\ total \in DOMAIN soft_hands
                /\ dealer_value \in DOMAIN soft_hands[total]
        THEN LET action == soft_hands[total][dealer_value]
             IN  IF action = "D" /\ ~can_double THEN "H" ELSE action
        ELSE IF total \in DOMAIN hard_hands
                /\ dealer_value \in DOMAIN hard_hands[total]
        THEN LET action == hard_hands[total][dealer_value]
             IN  IF action = "D" /\ ~can_double THEN "H" ELSE action
        ELSE "H"

BasicRecommendation(g, action) ==
    LET bust_probability == calculate_probability_of_bust(g)
    IN  [action |-> action,
         explanation |-> BasicExplanation(action),
         subsequent_advice |-> BasicAdvice(action, bust_probability),
         bust_probability |-> bust_probability]

\* BasicStrategy.get_recommendation: game.dealer_upcard.value fails on None
BasicStrategy_get_recommendation(g) ==
    IF g.dealer_upcard = NoCard THEN AttributeError
    ELSE BasicRecommendation(g, BasicAction(g))

----------------------------------------------------------------------------
(* CountingStrategy *)

FracLeq(a, b) == a.num * b.den <= b.num * a.den

FracGeq(a, b) == FracLeq(b, a)

true_count_thresholds ==
    [k \in {"insurance", "16_vs_10", "15_vs_10", "10_vs_ace", "12_vs_3", "12_vs_2",
            "11_vs_ace", "9_vs_2", "10_10_vs_5", "10_10_vs_6"} |->
        CASE k = "insurance" -> Frac(3, 1)
          [] k = "16_vs_10" -> Frac(0, 1)
          [] k = "15_vs_10" -> Frac(4, 1)
          [] k = "10_vs_ace" -> Frac(4, 1)
          [] k = "12_vs_3" -> Frac(2, 1)
          [] k = "12_vs_2" -> Frac(3, 1)
          [] k = "11_vs_ace" -> Frac(1, 1)
          [] k = "9_vs_2" -> Frac(1, 1)
          [] k = "10_10_vs_5" -> Frac(-4, 1)
          [] k = "10_10_vs_6" -> Frac(-4, 1)]

\* the chain of deviations with the 10-vs-Ace double tested before insurance
CountingDeviation_ten_vs_ace_first(g, basic_rec) ==
    LET hv == get_player_hand_value(g)
        total == hv.total
        is_soft == hv.is_soft
        dealer_value == g.dealer_upcard.value
        dealer_rank == g.dealer_upcard.rank
        true_count == get_true_count(g)
        thr == true_count_thresholds
        tens == {"10", "J", "Q", "K"}
        Dev(a, e) == [action |-> a, explanation |-> e, deviation_made |-> TRUE]
        none == [action |-> basic_rec.action, explanation |-> basic_rec.explanation,
                 deviation_made |-> FALSE]
    IN  IF total = 10 /\ dealer_value = 11 /\ can_double_down(g)
                /\ FracGeq(true_count, thr["10_vs_ace"])
        THEN Dev("D", "Double down with 10 vs A")
        ELSE IF dealer_rank = "A" /\ FracGeq(true_count, thr["insurance"])
        THEN Dev(basic_rec.action, "Consider taking insurance")
        ELSE IF total = 16 /\ dealer_value = 10 /\ ~is_soft
                /\ FracGeq(true_count, thr["16_vs_10"])
        THEN Dev("S", "Stand with 16 vs 10")
        ELSE IF total = 15 /\ dealer_value = 10 /\ ~is_soft
                /\ FracGeq(true_count, thr["15_vs_10"])
        THEN Dev("S", "Stand with 15 vs 10")
        ELSE IF total = 12 /\ dealer_value = 3 /\ ~is_soft
                /\ FracGeq(true_count, thr["12_vs_3"])
        THEN Dev("S", "Stand with 12 vs 3")
        ELSE IF total = 12 /\ dealer_value = 2 /\ ~is_soft
                /\ FracGeq(true_count, thr["12_vs_2"])
        THEN Dev("S", "Stand with 12 vs 2")
        ELSE IF total = 11 /\ dealer_value = 11 /\ can_double_down(g)
                /\ FracGeq(true_count, thr["11_vs_ace"])
        THEN Dev("D", "Double down with 11 vs A")
        ELSE IF total = 9 /\ dealer_value = 2 /\ can_double_down(g)
                /\ FracGeq(true_count, thr["9_vs_2"])
        THEN Dev("D", "Double down with 9 vs 2")
        ELSE IF can_split(g) /\ Len(g.player_hand) = 2
                /\ g.player_hand[1].rank \in tens /\ g.player_hand[2].rank \in tens
        THEN IF dealer_value = 5 /\ FracLeq(true_count, thr["10_10_vs_5"])
             THEN Dev("P", "Split 10s vs 5")
             ELSE IF dealer_value = 6 /\ FracLeq(true_count, thr["10_10_vs_6"])
             THEN Dev("P", "Split 10s vs 6")
             ELSE none
        ELSE none

\* lines 210-278 of CountingStrategy.get_recommendation: the if/elif chain
CountingDeviation(g, basic_rec) ==
    LET hv == get_player_hand_value(g)
        total == hv.total
        is_soft == hv.is_soft
        dealer_value == g.dealer_upcard.value
        dealer_rank == g.dealer_upcard.rank
        true_count == get_true_count(g)
        thr == true_count_thresholds
        tens == {"10", "J", "Q", "K"}
        Dev(a, e) == [action |-> a, explanation |-> e, deviation_made |-> TRUE]
        none == [action |-> basic_rec.action, explanation |-> basic_rec.explanation,
                 deviation_made |-> FALSE]
    IN  IF dealer_rank = "A" /\ FracGeq(true_count, thr["insurance"])
        THEN Dev(basic_rec.action, "Consider taking insurance")
        ELSE IF total = 16 /\ dealer_value = 10 /\ ~is_soft
                /\ FracGeq(true_count, thr["16_vs_10"])
        THEN Dev("S", "Stand with 16 vs 10")
        ELSE IF total = 15 /\ dealer_value = 10 /\ ~is_soft
                /\ FracGeq(true_count, thr["15_vs_10"])
        THEN Dev("S", "Stand with 15 vs 10")
        ELSE IF total = 10 /\ dealer_value = 11 /\ can_double_down(g)
                /\ FracGeq(true_count, thr["10_vs_ace"])
        THEN Dev("D", "Double down with 10 vs A")
        ELSE IF total = 12 /\ dealer_value = 3 /\ ~is_soft
                /\ FracGeq(true_count, thr["12_vs_3"])
        THEN Dev("S", "Stand with 12 vs 3")
        ELSE IF total = 12 /\ dealer_value = 2 /\ ~is_soft
                /\ FracGeq(true_count, thr["12_vs_2"])
        THEN Dev("S", "Stand with 12 vs 2")
        ELSE IF total = 11 /\ dealer_value = 11 /\ can_double_down(g)
                /\ FracGeq(true_count, thr["11_vs_ace"])
        THEN Dev("D", "Double down with 11 vs A")
        ELSE IF total = 9 /\ dealer_value = 2 /\ can_double_down(g)
                /\ FracGeq(true_count, thr["9_vs_2"])
        THEN Dev("D", "Double down with 9 vs 2")
        ELSE IF can_split(g) /\ Len(g.player_hand) = 2
                /\ g.player_hand[1].rank \in tens /\ g.player_hand[2].rank \in tens
        THEN IF dealer_value = 5 /\ FracLeq(true_count, thr["10_10_vs_5"])
             THEN Dev("P", "Split 10s vs 5")
             ELSE IF dealer_value = 6 /\ FracLeq(true_count, thr["10_10_vs_6"])
             THEN Dev("P", "Split 10s vs 6")
             ELSE none
        ELSE none

\* CountingStrategy.get_recommendation; an error of the basic engine passes
\* through
CountingStrategy_get_recommendation(g) ==
    LET basic_rec == BasicStrategy_get_recommendation(g)
    IN  IF basic_rec = AttributeError THEN AttributeError
        ELSE LET dev == CountingDeviation(g, basic_rec)
                 true_count == get_true_count(g)
             IN  [action |-> dev.action,
                  explanation |-> IF dev.deviation_made THEN dev.explanation
                                  ELSE "Follow basic strategy.",
                  subsequent_advice |-> [advice |-> basic_rec.subsequent_advice,
                                         deviation |-> dev.deviation_made],
                  bust_probability |-> calculate_probability_of_bust(g),
                  running_count |-> get_running_count(g),
                  true_count |-> true_count,
                  counting_info |-> IF FracLess(Frac(0, 1), true_count)
                                    THEN "more high cards" ELSE "more low cards"]

----------------------------------------------------------------------------
(* EnhancedStrategy *)

enhanced_true_count_thresholds ==
    [k \in {"insurance", "16_vs_10", "15_vs_10", "14_vs_10", "13_vs_10", "12_vs_10",
            "12_vs_3", "12_vs_2", "12_vs_4", "12_vs_5", "12_vs_6", "13_vs_2", "13_vs_3",
            "11_vs_ace", "10_vs_ace", "10_vs_10", "9_vs_2", "9_vs_3",
            "soft_18_vs_9", "soft_17_vs_2", "soft_16_vs_4", "soft_15_vs_4",
            "soft_14_vs_5", "soft_13_vs_5",
            "10_10_vs_5", "10_10_vs_6", "8_8_vs_10", "6_6_vs_7", "5_5_vs_10",
            "4_4_vs_4", "3_3_vs_8", "2_2_vs_8",
            "surrender_15_vs_10", "surrender_14_vs_10", "surrender_13_vs_10"} |->
        CASE k = "insurance" -> Frac(5, 2)
          [] k = "16_vs_10" -> Frac(0, 1)
          [] k = "15_vs_10" -> Frac(3, 1)
          [] k = "14_vs_10" -> Frac(4, 1)
          [] k \in {"13_vs_10", "12_vs_10"} -> Frac(5, 1)
          [] k \in {"12_vs_3", "12_vs_4", "13_vs_2"} -> Frac(1, 1)
          [] k \in {"12_vs_2", "12_vs_6"} -> Frac(2, 1)
          [] k \in {"12_vs_5", "13_vs_3"} -> Frac(3, 2)
          [] k \in {"11_vs_ace", "9_vs_2", "9_vs_3"} -> Frac(1, 2)
          [] k \in {"10_vs_ace", "10_vs_10", "soft_17_vs_2"} -> Frac(1, 1)
          [] k \in {"soft_18_vs_9", "soft_16_vs_4", "soft_15_vs_4",
                    "soft_14_vs_5", "soft_13_vs_5"} -> Frac(1, 2)
          [] k \in {"10_10_vs_5", "10_10_vs_6"} -> Frac(-3, 1)
          [] k \in {"8_8_vs_10", "6_6_vs_7", "5_5_vs_10", "4_4_vs_4",
                    "3_3_vs_8", "2_2_vs_8"} -> Frac(1, 1)
          [] k = "surrender_15_vs_10" -> Frac(-1, 1)
          [] k = "surrender_14_vs_10" -> Frac(-2, 1)
          [] k = "surrender_13_vs_10" -> Frac(-3, 1)]

\* a deviation: the action and explanation it sets
Deviation(action, explanation) ==
    [action |-> action, explanation |-> explanation, deviation_made |-> TRUE]

\* no deviation: action and explanation stay those of the basic recommendation
NoDeviation(basic_rec) ==
    [action |-> basic_rec.action, explanation |-> basic_rec.explanation,
     deviation_made |-> FALSE]

\* lines 437-450: the body of "elif is_soft"
EnhancedSoftDeviations(g, basic_rec) ==
    LET total == get_player_hand_value(g).total
        dealer_value == g.dealer_upcard.value
        true_count == get_true_count(g)
        thr == enhanced_true_count_thresholds
    IN  IF total = 18 /\ dealer_value = 9 /\ FracGeq(true_count, thr["soft_18_vs_9"])
        THEN Deviation("S", "Stand on soft 18 vs 9")
        ELSE IF total = 17 /\ dealer_value = 2 /\ FracGeq(true_count, thr["soft_17_vs_2"])
        THEN Deviation("S", "Stand on soft 17 vs 2")
        ELSE IF total = 16 /\ dealer_value = 4 /\ can_double_down(g)
                /\ FracGeq(true_count, thr["soft_16_vs_4"])
        THEN Deviation("D", "Double on soft 16 vs 4")
        ELSE NoDeviation(basic_rec)

\* lines 454-467: the body of "elif game.can_double_down()"
EnhancedDoubleDeviations(g, basic_rec) ==
    LET total == get_player_hand_value(g).total
        dealer_value == g.dealer_upcard.value
        true_count == get_true_count(g)
        thr == enhanced_true_count_thresholds
    IN  IF total = 11 /\ dealer_value = 11 /\ FracGeq(true_count, thr["11_vs_ace"])
        THEN Deviation("D", "Double on 11 vs A")
        ELSE IF total = 10 /\ dealer_value = 11 /\ FracGeq(true_count, thr["10_vs_ace"])
        THEN Deviation("D", "Double on 10 vs A")
        ELSE IF total = 10 /\ dealer_value = 10 /\ FracGeq(true_count, thr["10_vs_10"])
        THEN Deviation("D", "Double on 10 vs 10")
        ELSE NoDeviation(basic_rec)

\* lines 471-487: the body of "elif game.can_split() and len(...) == 2"
EnhancedPairDeviations(g, basic_rec) ==
    LET card1 == g.player_hand[1].rank
        card2 == g.player_hand[2].rank
        dealer_value == g.dealer_upcard.value
        true_count == get_true_count(g)
        thr == enhanced_true_count_thresholds
        tens == {"10", "J", "Q", "K"}
    IN  IF card1 \in tens /\ card2 \in tens
        THEN IF dealer_value = 5 /\ FracLeq(true_count, thr["10_10_vs_5"])
             THEN Deviation("P", "Split 10s vs 5")
             ELSE IF dealer_value = 6 /\ FracLeq(true_count, thr["10_10_vs_6"])
             THEN Deviation("P", "Split 10s vs 6")
             ELSE NoDeviation(basic_rec)
        ELSE IF card1 = "8" /\ card2 = "8" /\ dealer_value = 10
                /\ FracGeq(true_count, thr["8_8_vs_10"])
        THEN Deviation("P", "Split 8s vs 10")
        ELSE NoDeviation(basic_rec)

\* lines 410-433: the standing deviations against a dealer 10; NoDeviation
\* when none applies
EnhancedStandingDeviations(g, basic_rec) ==
    LET hv == get_player_hand_value(g)
        total == hv.total
        is_soft == hv.is_soft
        dealer_value == g.dealer_upcard.value
        true_count == get_true_count(g)
        thr == enhanced_true_count_thresholds
    IN  IF total = 16 /\ dealer_value = 10 /\ ~is_soft
           /\ FracGeq(true_count, thr["16_vs_10"])
        THEN Deviation("S", "Stand with 16 vs 10")
        ELSE IF total = 15 /\ dealer_value = 10 /\ ~is_soft
                /\ FracGeq(true_count, thr["15_vs_10"])
        THEN Deviation("S", "Stand with 15 vs 10")
        ELSE IF total = 14 /\ dealer_value = 10 /\ ~is_soft
                /\ FracGeq(true_count, thr["14_vs_10"])
        THEN Deviation("S", "Stand with 14 vs 10")
        ELSE IF total = 13 /\ dealer_value = 10 /\ ~is_soft
                /\ FracGeq(true_count, thr["13_vs_10"])
        THEN Deviation("S", "Stand with 13 vs 10")
        ELSE IF total = 12 /\ dealer_value = 10 /\ ~is_soft
                /\ FracGeq(true_count, thr["12_vs_10"])
        THEN Deviation("S", "Stand with 12 vs 10")
        ELSE NoDeviation(basic_rec)

\* the chain with the double-down deviations tested before insurance
EnhancedDeviation_doubles_before_insurance(g, basic_rec) ==
    LET is_soft == get_player_hand_value(g).is_soft
        dealer_rank == g.dealer_upcard.rank
        true_count == get_true_count(g)
        thr == enhanced_true_count_thresholds
        standing == EnhancedStandingDeviations(g, basic_rec)
        doubles == EnhancedDoubleDeviations(g, basic_rec)
    IN  IF can_double_down(g) /\ doubles.deviation_made THEN doubles
        ELSE IF dealer_rank = "A" /\ FracGeq(true_count, thr["insurance"])
        THEN Deviation(basic_rec.action, "Consider taking insurance")
        ELSE IF standing.deviation_made THEN standing
        ELSE IF is_soft THEN EnhancedSoftDeviations(g, basic_rec)
        ELSE IF can_double_down(g) THEN doubles
        ELSE IF can_split(g) /\ Len(g.player_hand) = 2
        THEN EnhancedPairDeviations(g, basic_rec)
        ELSE NoDeviation(basic_rec)

\* the chain with the double-down deviations tested for a hand of any size
EnhancedDeviation_doubles_any_size(g, basic_rec) ==
    LET is_soft == get_player_hand_value(g).is_soft
        dealer_rank == g.dealer_upcard.rank
        true_count == get_true_count(g)
        thr == enhanced_true_count_thresholds
        standing == EnhancedStandingDeviations(g, basic_rec)
        doubles == EnhancedDoubleDeviations(g, basic_rec)
    IN  IF dealer_rank = "A" /\ FracGeq(true_count, thr["insurance"])
        THEN Deviation(basic_rec.action, "Consider taking insurance")
        ELSE IF standing.deviation_made THEN standing
        ELSE IF is_soft THEN EnhancedSoftDeviations(g, basic_rec)
        ELSE doubles

\* lines 401-487 of EnhancedStrategy.get_recommendation: the if/elif chain
EnhancedDeviation(g, basic_rec) ==
    LET is_soft == get_player_hand_value(g).is_soft
        dealer_rank == g.dealer_upcard.rank
        true_count == get_true_count(g)
        thr == enhanced_true_count_thresholds
        standing == EnhancedStandingDeviations(g, basic_rec)
        doubles == EnhancedDoubleDeviations(g, basic_rec)
    IN  IF dealer_rank = "A" /\ FracGeq(true_count, thr["insurance"])
        THEN Deviation(basic_rec.action, "Consider taking insurance")
        ELSE IF standing.deviation_made THEN standing
        ELSE IF is_soft THEN EnhancedSoftDeviations(g, basic_rec)
        ELSE IF can_double_down(g) THEN doubles
        ELSE IF can_split(g) /\ Len(g.player_hand) = 2
        THEN EnhancedPairDeviations(g, basic_rec)
        ELSE NoDeviation(basic_rec)

\* EnhancedStrategy.get_recommendation; without a deviation the explanation
\* stays that of the basic recommendation
EnhancedStrategy_get_recommendation(g) ==
    LET basic_rec == BasicStrategy_get_recommendation(g)
    IN  IF basic_rec = AttributeError THEN AttributeError
        ELSE LET dev == EnhancedDeviation(g, basic_rec)
                 true_count == get_true_count(g)
             IN  [action |-> dev.action,
                  explanation |-> dev.explanation,
                  subsequent_advice |-> [advice |-> basic_rec.subsequent_advice,
                                         deviation |-> dev.deviation_made],
                  bust_probability |-> calculate_probability_of_bust(g),
                  running_count |-> get_running_count(g),
                  true_count |-> true_count,
                  counting_info |-> IF FracLess(Frac(0, 1), true_count)
                                    THEN "more high cards" ELSE "more low cards"]

----------------------------------------------------------------------------
(* Bookkeeping shared by the specifications *)

\* added: how many cards of each rank were passed to add_dealt_card,
\* add_to_player_hand or set_dealer_upcard since the Game was last fresh
NoneAdded == [r \in RankSet |-> 0]

Passed(bag, card_str) ==
    IF Card(card_str) = ValueError THEN bag
    ELSE [bag EXCEPT ![Card(card_str).rank] = @ + 1]

RECURSIVE BagTotal(_, _)
BagTotal(bag, i) ==
    IF i > Len(ranks) THEN 0 ELSE bag[ranks[i]] + BagTotal(bag, i + 1)

NoRet == [none |-> TRUE]

NoArg == <<>>

----------------------------------------------------------------------------
(* The command-line program: blackjack_assistant.main *)

\* tokens returned by BlackjackUI.get_card_input: upper-cased, stripped and
\* matched against the card format before they reach the Game
CliTokens == {<<"5", "H">>, <<"8", "S">>, <<"K", "S">>, <<"A", "S">>}

\* deck counts returned by BlackjackUI.get_num_decks
CliDecks == 1..MaxDecks

InitCLI ==
    /\ \E n \in CliDecks : game = NewGame(n)
    /\ card_counts = <<>>
    /\ deck_var = 0
    /\ pc = "menu"
    /\ added = NoneAdded
    /\ op = [name |-> "Game", arg |-> NoArg]
    /\ prev = game
    /\ ret = NoRet

\* choice 1
cli_add_dealt_card(card_str) ==
    /\ pc = "menu"
    /\ BagTotal(added, 1) < MaxCards
    /\ game' = add_dealt_card(game, card_str)
    /\ added' = Passed(added, card_str)
    /\ op' = [name |-> "add_dealt_card", arg |-> card_str]
    /\ prev' = game
    /\ ret' = NoRet
    /\ UNCHANGED <<card_counts, deck_var, pc>>

\* choice 2: the hand is cleared, then cards are read until an empty line
cli_clear_player_hand ==
    /\ pc = "menu"
    /\ game' = [game EXCEPT !.player_hand = <<>>]
    /\ pc' = "hand"
    /\ op' = [name |-> "clear_player_hand", arg |-> NoArg]
    /\ prev' = game
    /\ ret' = NoRet
    /\ UNCHANGED <<card_counts, deck_var, added>>

cli_add_to_player_hand(card_str) ==
    /\ pc = "hand"
    /\ BagTotal(added, 1) < MaxCards
    /\ game' = add_to_player_hand(game, card_str)
    /\ added' = Passed(added, card_str)
    /\ op' = [name |-> "add_to_player_hand", arg |-> card_str]
    /\ prev' = game
    /\ ret' = NoRet
    /\ UNCHANGED <<card_counts, deck_var, pc>>

\* the empty line that ends choice 2, then display_player_hand
cli_display_player_hand ==
    /\ pc = "hand"
    /\ pc' = "menu"
    /\ op' = [name |-> "get_player_hand_value", arg |-> NoArg]
    /\ prev' = game
    /\ ret' = IF game.player_hand = <<>> THEN NoRet ELSE get_player_hand_value(game)
    /\ UNCHANGED <<game, card_counts, deck_var, added>>

\* choice 3
cli_set_dealer_upcard(card_str) ==
    /\ pc = "menu"
    /\ BagTotal(added, 1) < MaxCards
    /\ game' = set_dealer_upcard(game, card_str)
    /\ added' = Passed(added, card_str)
    /\ op' = [name |-> "set_dealer_upcard", arg |-> card_str]
    /\ prev' = game
    /\ ret' = NoRet
    /\ UNCHANGED <<card_counts, deck_var, pc>>

\* choice 5
display_game_state ==
    /\ pc = "menu"
    /\ op' = [name |-> "display_game_state", arg |-> NoArg]
    /\ prev' = game
    /\ ret' = [running_count |-> get_running_count(game),
               true_count |-> get_true_count(game),
               remaining |-> get_remaining_cards(game)]
    /\ UNCHANGED <<game, card_counts, deck_var, pc, added>>

\* choice 6: a new Game replaces the old one
cli_reset(n) ==
    /\ pc = "menu"
    /\ game' = NewGame(n)
    /\ added' = NoneAdded
    /\ op' = [name |-> "Game", arg |-> NoArg]
    /\ prev' = game
    /\ ret' = NoRet
    /\ UNCHANGED <<card_counts, deck_var, pc>>

NextCLI ==
    \/ \E t \in CliTokens : cli_add_dealt_card(t)
    \/ cli_clear_player_hand
    \/ \E t \in CliTokens : cli_add_to_player_hand(t)
    \/ cli_display_player_hand
    \/ \E t \in CliTokens : cli_set_dealer_upcard(t)
    \/ display_game_state
    \/ \E n \in CliDecks : cli_reset(n)

SpecCLI == InitCLI /\ [][NextCLI]_vars

----------------------------------------------------------------------------
(* The GUI program: blackjack_assistant_gui.main and BlackjackGUI *)

\* what the user can leave in the "Decks" spinbox before pressing Set or Reset
DeckEntries == {-1, 1}

\* ranks delivered by a click on a source card or by process_card_word
\* (which maps the word "one" to "1")
GuiRanks == {"5", "K", "A", "1"}

initialize_card_counts(deck_count) == [r \in RankSet |-> deck_count * 4]

\* decrement_card_count: the returned flag and the dictionary afterwards
decrement_card_count(counts, rank) ==
    IF rank \in DOMAIN counts
    THEN IF counts[rank] > 0
         THEN [ok |-> TRUE, card_counts |-> [counts EXCEPT ![rank] = @ - 1]]
         ELSE [ok |-> FALSE, card_counts |-> counts]
    ELSE [ok |-> FALSE, card_counts |-> counts]

\* rank + "S"
DummySuit(rank) == (IF rank = "1" THEN <<"1">> ELSE Chars(rank)) \o <<"S">>

\* cards taken from the availability counters since the last reset
RECURSIVE Taken(_, _, _)
Taken(counts, num_decks, i) ==
    IF i > Len(ranks) THEN 0
    ELSE (num_decks * 4 - counts[ranks[i]]) + Taken(counts, num_decks, i + 1)

Init ==
    /\ game = NewGame(6)
    /\ deck_var = 6
    /\ card_counts = initialize_card_counts(6)
    /\ pc = "gui"
    /\ added = NoneAdded
    /\ op = [name |-> "set_game_and_strategies", arg |-> NoArg]
    /\ prev = game
    /\ ret = NoRet

\* the user types a value into the spinbox
edit_decks(v) ==
    /\ deck_var # v
    /\ deck_var' = v
    /\ op' = [name |-> "edit_decks", arg |-> NoArg]
    /\ prev' = game
    /\ ret' = NoRet
    /\ UNCHANGED <<game, card_counts, pc, added>>

set_decks ==
    /\ IF 1 <= deck_var /\ deck_var <= 8
       THEN /\ game' = reset_deck([game EXCEPT !.num_decks = deck_var])
            /\ card_counts' = initialize_card_counts(deck_var)
            /\ added' = NoneAdded
            /\ ret' = [shown |-> "Deck Count"]
       ELSE /\ ret' = [shown |-> "Invalid Input"]
            /\ UNCHANGED <<game, card_counts, added>>
    /\ op' = [name |-> "set_decks", arg |-> NoArg]
    /\ prev' = game
    /\ UNCHANGED <<deck_var, pc>>

reset_game ==
    /\ game' = reset_deck([game EXCEPT !.num_decks = deck_var])
    /\ card_counts' = initialize_card_counts(deck_var)
    /\ added' = NoneAdded
    /\ op' = [name |-> "reset_game", arg |-> NoArg]
    /\ prev' = game
    /\ ret' = [shown |-> "Game Reset"]
    /\ UNCHANGED <<deck_var, pc>>

set_dealer_card(rank) ==
    /\ Taken(card_counts, game.num_decks, 1) < MaxCards
    /\ LET d == decrement_card_count(card_counts, rank)
       IN  IF ~d.ok
           THEN /\ ret' = [shown |-> "No Cards Left"]
                /\ UNCHANGED <<game, card_counts, added>>
           ELSE /\ card_counts' = d.card_counts
                /\ game' = set_dealer_upcard(game, DummySuit(rank))
                /\ added' = Passed(added, DummySuit(rank))
                /\ ret' = NoRet
    /\ op' = [name |-> "set_dealer_card", arg |-> DummySuit(rank)]
    /\ prev' = game
    /\ UNCHANGED <<deck_var, pc>>

gui_add_to_player_hand(rank) ==
    /\ Taken(card_counts, game.num_decks, 1) < MaxCards
    /\ LET d == decrement_card_count(card_counts, rank)
       IN  IF ~d.ok
           THEN /\ ret' = [shown |-> "No Cards Left"]
                /\ UNCHANGED <<game, card_counts, added>>
           ELSE /\ card_counts' = d.card_counts
                /\ game' = add_to_player_hand(game, DummySuit(rank))
                /\ added' = Passed(added, DummySuit(rank))
                /\ ret' = NoRet
    /\ op' = [name |-> "add_to_player_hand", arg |-> DummySuit(rank)]
    /\ prev' = game
    /\ UNCHANGED <<deck_var, pc>>

add_to_dealt_cards(rank) ==
    /\ Taken(card_counts, game.num_decks, 1) < MaxCards
    /\ LET d == decrement_card_count(card_counts, rank)
       IN  IF ~d.ok
           THEN /\ ret' = [shown |-> "No Cards Left"]
                /\ UNCHANGED <<game, card_counts, added>>
           ELSE /\ card_counts' = d.card_counts
                /\ game' = add_dealt_card(game, DummySuit(rank))
                /\ added' = Passed(added, DummySuit(rank))
                /\ ret' = NoRet
    /\ op' = [name |-> "add_to_dealt_cards", arg |-> DummySuit(rank)]
    /\ prev' = game
    /\ UNCHANGED <<deck_var, pc>>

\* the loop "for player_card in self.game.player_hand" of next_hand
RECURSIVE MovePlayerCards(_, _)
\* the loop as it would be if it stopped after the first player card
MovePlayerCards_first_only(g, cards) ==
    IF cards = <<>> THEN g
    ELSE add_dealt_card(g, DummySuit(cards[1].rank))

MovePlayerCards(g, cards) ==
    IF cards = <<>> THEN g
    ELSE MovePlayerCards(add_dealt_card(g, DummySuit(cards[1].rank)), Tail(cards))

RECURSIVE PassedAll(_, _)
PassedAll(bag, cards) ==
    IF cards = <<>> THEN bag
    ELSE PassedAll(Passed(bag, DummySuit(cards[1].rank)), Tail(cards))

next_hand ==
    /\ LET g1 == IF game.dealer_upcard # NoCard
                 THEN add_dealt_card(game, DummySuit(game.dealer_upcard.rank))
                 ELSE game
           g2 == MovePlayerCards(g1, game.player_hand)
       IN  game' = [g2 EXCEPT !.player_hand = <<>>, !.dealer_upcard = NoCard]
    /\ added' = PassedAll(added, (IF game.dealer_upcard # NoCard
                                  THEN <<game.dealer_upcard>> ELSE <<>>)
                                 \o game.player_hand)
    /\ op' = [name |-> "next_hand", arg |-> NoArg]
    /\ prev' = game
    /\ ret' = NoRet
    /\ UNCHANGED <<card_counts, deck_var, pc>>

Next ==
    \/ \E v \in DeckEntries : edit_decks(v)
    \/ set_decks
    \/ reset_game
    \/ \E rank \in GuiRanks : set_dealer_card(rank)
    \/ \E rank \in GuiRanks : gui_add_to_player_hand(rank)
    \/ \E rank \in GuiRanks : add_to_dealt_cards(rank)
    \/ next_hand

Spec == Init /\ [][Next]_vars

----------------------------------------------------------------------------
(* The Game and Card classes called directly, with any token *)

\* tokens passed by a caller: three that name a card, then lower case, a
\* missing suit, ranks 1 and 11, a leading blank, a second suit letter, a
\* trailing newline and the empty string
GameTokens ==
    { <<"A", "S">>, <<"1", "0", "H">>, <<"5", "C">>,
      <<"a", "s">>, <<"A">>, <<"1", "S">>, <<"1", "1", "S">>,
      <<" ", "A", "S">>, <<"A", "S", "S">>, <<"A", "S", "\n">>, <<>> }

\* what a call of a mutator shows its caller
Raised(card_str) ==
    IF Card(card_str) = ValueError THEN [raised |-> "ValueError"] ELSE NoRet

InitGame ==
    /\ game = NewGame(1)
    /\ card_counts = <<>>
    /\ deck_var = 0
    /\ pc = "api"
    /\ added = NoneAdded
    /\ op = [name |-> "Game", arg |-> NoArg]
    /\ prev = game
    /\ ret = NoRet

new_Card(card_str) ==
    /\ op' = [name |-> "Card", arg |-> card_str]
    /\ prev' = game
    /\ ret' = Card(card_str)
    /\ UNCHANGED <<game, card_counts, deck_var, pc, added>>

game_add_dealt_card(card_str) ==
    /\ BagTotal(added, 1) < MaxCards
    /\ game' = add_dealt_card(game, card_str)
    /\ added' = Passed(added, card_str)
    /\ op' = [name |-> "add_dealt_card", arg |-> card_str]
    /\ prev' = game
    /\ ret' = Raised(card_str)
    /\ UNCHANGED <<card_counts, deck_var, pc>>

game_add_to_player_hand(card_str) ==
    /\ BagTotal(added, 1) < MaxCards
    /\ game' = add_to_player_hand(game, card_str)
    /\ added' = Passed(added, card_str)
    /\ op' = [name |-> "add_to_player_hand", arg |-> card_str]
    /\ prev' = game
    /\ ret' = Raised(card_str)
    /\ UNCHANGED <<card_counts, deck_var, pc>>

game_set_dealer_upcard(card_str) ==
    /\ BagTotal(added, 1) < MaxCards
    /\ game' = set_dealer_upcard(game, card_str)
    /\ added' = Passed(added, card_str)
    /\ op' = [name |-> "set_dealer_upcard", arg |-> card_str]
    /\ prev' = game
    /\ ret' = Raised(card_str)
    /\ UNCHANGED <<card_counts, deck_var, pc>>

NextGame ==
    \/ \E t \in GameTokens : new_Card(t)
    \/ \E t \in GameTokens : game_add_dealt_card(t)
    \/ \E t \in GameTokens : game_add_to_player_hand(t)
    \/ \E t \in GameTokens : game_set_dealer_upcard(t)

SpecGame == InitGame /\ [][NextGame]_vars

----------------------------------------------------------------------------
(* The Game's queries as functions of a Game: the Game is drawn from those   *)
(* built by dealing a prefix of the shoe in deck order, then a player hand   *)
(* and possibly a dealer up-card                                             *)

HandRanks == {"2", "6", "9", "K", "A"}

\* the player hands drawn, as sequences of ranks
RankSeqs(n) == UNION {[1..k -> HandRanks] : k \in 0..n}

\* deck counts of the drawn Games
QueryDecks == {1, 2}

\* how many cards of the shoe are already dealt: none, or (one deck) all but
\* two, or all
ShoePrefixes(num_decks) ==
    {0} \cup (IF num_decks = 1 THEN {52 * num_decks - 2, 52 * num_decks} ELSE {})

QueryDealers == {"None", "7"}

\* add_dealt_card for tokens[lo..hi] in order; the range is split in halves and
\* the first half is evaluated before the second to keep the evaluation shallow
RECURSIVE DealAll(_, _, _, _)
DealAll(g, tokens, lo, hi) ==
    IF lo > hi THEN g
    ELSE IF lo = hi THEN add_dealt_card(g, tokens[lo])
    ELSE LET mid == (lo + hi) \div 2
             first == DealAll(g, tokens, lo, mid)
         IN  IF Len(first.dealt_cards) >= 0
             THEN DealAll(first, tokens, mid + 1, hi)
             ELSE first

RECURSIVE TakeAll(_, _)
TakeAll(g, hand_ranks) ==
    IF hand_ranks = <<>> THEN g
    ELSE TakeAll(add_to_player_hand(g, Chars(hand_ranks[1]) \o <<"S">>), Tail(hand_ranks))

DrawnGame(num_decks, k, hand_ranks, dealer) ==
    LET g1 == DealAll(NewGame(num_decks), Deck(num_decks), 1, k)
        g2 == TakeAll(g1, hand_ranks)
    IN  IF dealer = "None" THEN g2 ELSE set_dealer_upcard(g2, Chars(dealer) \o <<"S">>)

\* every card of a drawn Game was passed to one of the three mutators
HeldCards(g) ==
    g.dealt_cards \o g.player_hand
    \o (IF g.dealer_upcard # NoCard THEN <<g.dealer_upcard>> ELSE <<>>)

HeldBag(g) ==
    LET held == HeldCards(g)
    IN  [r \in RankSet |-> Cardinality({i \in 1..Len(held) : held[i].rank = r})]

InitQuery ==
    /\ \E n \in QueryDecks : \E k \in ShoePrefixes(n) :
       \E h \in RankSeqs(MaxHand) : \E d \in QueryDealers :
          /\ game = DrawnGame(n, k, h, d)
          /\ added = HeldBag(game)
    /\ card_counts = <<>>
    /\ deck_var = 0
    /\ pc = "query"
    /\ op = [name |-> "Game", arg |-> NoArg]
    /\ prev = game
    /\ ret = NoRet

query_player_hand_value ==
    /\ op' = [name |-> "get_player_hand_value", arg |-> NoArg]
    /\ ret' = get_player_hand_value(game)
    /\ prev' = game
    /\ UNCHANGED <<game, card_counts, deck_var, pc, added>>

query_true_count ==
    /\ op' = [name |-> "get_true_count", arg |-> NoArg]
    /\ ret' = get_true_count(game)
    /\ prev' = game
    /\ UNCHANGED <<game, card_counts, deck_var, pc, added>>

query_probability_of_bust ==
    /\ op' = [name |-> "calculate_probability_of_bust", arg |-> NoArg]
    /\ ret' = calculate_probability_of_bust(game)
    /\ prev' = game
    /\ UNCHANGED <<game, card_counts, deck_var, pc, added>>

NextQuery ==
    \/ query_player_hand_value
    \/ query_true_count
    \/ query_probability_of_bust

SpecQuery == InitQuery /\ [][NextQuery]_vars

----------------------------------------------------------------------------
(* The strategy engines as functions of a Game: the Game is a single deck    *)
(* with a pile of dealt cards, a player hand and possibly a dealer up-card.  *)
(* The engines read the hand through its total, its length and the ranks of  *)
(* its first two cards, so hands are drawn in rank order.                    *)

\* piles of dealt cards: none, five low, five high
StrategyPiles ==
    { <<>>, <<"2", "3", "4", "5", "6">>, <<"10", "J", "Q", "K", "A">> }

StrategyDealers == {"None", "2", "3", "4", "5", "6", "7", "8", "9", "10", "A"}

\* the hands of at most n cards, as sequences of ranks in the order of ranks
SortedHands(n) ==
    UNION {{[i \in 1..k |-> ranks[h[i]]] :
               h \in {f \in [1..k -> 1..Len(ranks)] :
                         \A i \in 1..(k - 1) : f[i] <= f[i + 1]}} : k \in 0..n}

\* the tokens of a pile
PileTokens(pile) == [i \in 1..Len(pile) |-> Chars(pile[i]) \o <<"D">>]

PiledGame(pile, hand_ranks, dealer) ==
    LET g1 == DealAll(NewGame(1), PileTokens(pile), 1, Len(pile))
        g2 == TakeAll(g1, hand_ranks)
    IN  IF dealer = "None" THEN g2 ELSE set_dealer_upcard(g2, Chars(dealer) \o <<"S">>)

InitStrategy ==
    /\ \E pile \in StrategyPiles : \E h \in SortedHands(MaxStrategyHand) :
       \E d \in StrategyDealers :
          /\ game = PiledGame(pile, h, d)
          /\ added = HeldBag(game)
    /\ card_counts = <<>>
    /\ deck_var = 0
    /\ pc = "strategy"
    /\ op = [name |-> "Game", arg |-> NoArg]
    /\ prev = game
    /\ ret = NoRet

query_can_split ==
    /\ op' = [name |-> "can_split", arg |-> NoArg]
    /\ ret' = [can_split |-> can_split(game)]
    /\ prev' = game
    /\ UNCHANGED <<game, card_counts, deck_var, pc, added>>

basic_get_recommendation ==
    /\ op' = [name |-> "BasicStrategy.get_recommendation", arg |-> NoArg]
    /\ ret' = BasicStrategy_get_recommendation(game)
    /\ prev' = game
    /\ UNCHANGED <<game, card_counts, deck_var, pc, added>>

counting_get_recommendation ==
    /\ op' = [name |-> "CountingStrategy.get_recommendation", arg |-> NoArg]
    /\ ret' = CountingStrategy_get_recommendation(game)
    /\ prev' = game
    /\ UNCHANGED <<game, card_counts, deck_var, pc, added>>

\* get_recommendation as it would be if the query it calls drained the hand
enhanced_get_recommendation_consuming_hand ==
    /\ op' = [name |-> "EnhancedStrategy.get_recommendation", arg |-> NoArg]
    /\ ret' = EnhancedStrategy_get_recommendation(game)
    /\ prev' = game
    /\ game' = [game EXCEPT !.dealt_cards = game.dealt_cards \o game.player_hand,
                            !.player_hand = <<>>]
    /\ UNCHANGED <<card_counts, deck_var, pc, added>>

enhanced_get_recommendation ==
    /\ op' = [name |-> "EnhancedStrategy.get_recommendation", arg |-> NoArg]
    /\ ret' = EnhancedStrategy_get_recommendation(game)
    /\ prev' = game
    /\ UNCHANGED <<game, card_counts, deck_var, pc, added>>

NextStrategy ==
    \/ query_can_split
    \/ basic_get_recommendation
    \/ counting_get_recommendation
    \/ enhanced_get_recommendation

SpecStrategy == InitStrategy /\ [][NextStrategy]_vars

----------------------------------------------------------------------------
(* Properties *)

\* the Hi-Lo contribution of a rank as the specification states it
HiLoContribution(rank) ==
    LET v == rank_values[rank]
    IN  IF v >= 2 /\ v <= 6 THEN 1
        ELSE IF v >= 10 \/ rank = "A" THEN -1
        ELSE 0

\* |dealt_cards| + |player_hand| + (1 if the dealer up-card is set)
CardsDealtSoFar(g) ==
    Len(g.dealt_cards) + Len(g.player_hand) + (IF g.dealer_upcard = NoCard THEN 0 ELSE 1)

\* the Hi-Lo sum of the cards a Game currently holds
HeldHiLo(g) ==
    LET held == HeldCards(g)
    IN  Cardinality({i \in 1..Len(held) : HiLoContribution(held[i].rank) = 1})
        - Cardinality({i \in 1..Len(held) : HiLoContribution(held[i].rank) = -1})

\* the key of the remaining inventory a rank is counted under
Bucket(rank) == IF rank \in {"10", "J", "Q", "K"} THEN "10" ELSE rank

\* C1: after any sequence of add_dealt_card, add_to_player_hand and
\* set_dealer_upcard calls on a fresh Game, the running count is the sum over
\* every card passed to any of them of +1 for values 2..6, -1 for values >= 10
\* and aces, 0 for 7..9, whichever operation received the card.
C1_RunningCountIsHiLoSum ==
    get_running_count(game)
      = (added["2"] + added["3"] + added["4"] + added["5"] + added["6"])
        - (added["10"] + added["J"] + added["Q"] + added["K"] + added["A"])

C1_Witness ==
    /\ game.dealt_cards # <<>>
    /\ game.player_hand # <<>>
    /\ game.dealer_upcard # NoCard
    /\ added["5"] > 0 /\ added["8"] > 0 /\ added["A"] > 0

\* C2: next_hand is a count-preserving transfer: the running count right
\* after next_hand equals the running count right before it.
C2_NextHandPreservesCount ==
    op.name = "next_hand" => game.card_count = prev.card_count

\* C3: set_dealer_upcard on a Game whose up-card c1 is set replaces it by c2
\* only: c1 goes to no collection (the cards dealt so far stay as many, the
\* inventory gets c1 back and loses c2), and the running count keeps the
\* contribution of c1 and gains that of c2.
C3_UpcardReplacedNotReversed ==
    (op.name = "set_dealer_upcard" /\ prev.dealer_upcard # NoCard) =>
        LET c1 == prev.dealer_upcard
            c2 == Card(op.arg)
        IN  /\ game.dealer_upcard = c2
            /\ game.dealt_cards = prev.dealt_cards
            /\ game.player_hand = prev.player_hand
            /\ CardsDealtSoFar(game) = CardsDealtSoFar(prev)
            /\ \A k \in RemainingKeySet :
                  get_remaining_cards(game)[k]
                    = get_remaining_cards(prev)[k]
                      + (IF k = Bucket(c1.rank) THEN 1 ELSE 0)
                      - (IF k = Bucket(c2.rank) THEN 1 ELSE 0)
            /\ game.card_count = prev.card_count + HiLoContribution(c2.rank)
            /\ game.card_count - HeldHiLo(game)
                 = (prev.card_count - HeldHiLo(prev)) + HiLoContribution(c1.rank)

C3_Witness ==
    /\ op.name = "set_dealer_upcard"
    /\ prev.dealer_upcard # NoCard
    /\ prev.dealer_upcard.rank # game.dealer_upcard.rank
    /\ HiLoContribution(prev.dealer_upcard.rank) # 0
    /\ game.card_count # HeldHiLo(game)

\* C4: after reset_deck, as run by the GUI's set_decks (with a deck count it
\* accepts) and reset_game, dealt_cards and player_hand are empty, the dealer
\* up-card is unset, the running count and the true count are 0 and every
\* bucket of the remaining inventory is full (4*decks, 16*decks for "10").
C4_ResetClearsGame ==
    (op.name = "reset_game" \/ (op.name = "set_decks" /\ ret.shown = "Deck Count")) =>
        /\ game.dealt_cards = <<>>
        /\ game.player_hand = <<>>
        /\ game.dealer_upcard = NoCard
        /\ get_running_count(game) = 0
        /\ get_true_count(game) = [num |-> 0, den |-> 1]
        /\ \A k \in RemainingKeySet :
              get_remaining_cards(game)[k]
                = (IF k = "10" THEN 16 ELSE 4) * game.num_decks

C4_Witness ==
    /\ op.name \in {"reset_game", "set_decks"}
    /\ prev.dealt_cards # <<>>
    /\ prev.player_hand # <<>>
    /\ prev.dealer_upcard # NoCard
    /\ prev.card_count # 0
    /\ game.dealt_cards = <<>>

\* C5: in every state reached through the GUI actions, every entry of
\* get_remaining_cards() is >= 0.
C5_RemainingNeverNegative ==
    \A k \in RemainingKeySet : get_remaining_cards(game)[k] >= 0

\* C6: get_true_count() returns 0 whenever 52*num_decks - cardsDealtSoFar <= 0
\* and otherwise exactly running_count * 52 / (52*num_decks - cardsDealtSoFar);
\* no division by a zero or negative denominator happens.
C6_TrueCount ==
    op.name = "get_true_count" =>
        LET left == 52 * game.num_decks - CardsDealtSoFar(game)
        IN  IF left <= 0
            THEN ret = [num |-> 0, den |-> 1]
            ELSE /\ ret.den > 0
                 /\ ret.num * left = game.card_count * 52 * ret.den

C6_Witness ==
    /\ op.name = "get_true_count"
    /\ 52 * game.num_decks - CardsDealtSoFar(game) < 0
    /\ game.card_count # 0
    /\ ret = [num |-> 0, den |-> 1]

\* C7: for a player hand whose total is below 21, calculate_probability_of_bust()
\* is B / R, R the sum of all remaining-inventory counts and B the sum of the
\* counts of exactly the ranks whose numeric value (10 for the ace bucket, the
\* numeral otherwise) is greater than 21 - total; it is 0.0 when R = 0.
C7_BustProbability ==
    (op.name = "calculate_probability_of_bust" /\ get_player_hand_value(game).total < 21) =>
        LET threshold == 21 - get_player_hand_value(game).total
            remaining == get_remaining_cards(game)
            Busting(k, v) == IF v > threshold THEN remaining[k] ELSE 0
            B == Busting("2", 2) + Busting("3", 3) + Busting("4", 4) + Busting("5", 5)
                 + Busting("6", 6) + Busting("7", 7) + Busting("8", 8) + Busting("9", 9)
                 + Busting("10", 10) + Busting("A", 10)
            R == remaining["2"] + remaining["3"] + remaining["4"] + remaining["5"]
                 + remaining["6"] + remaining["7"] + remaining["8"] + remaining["9"]
                 + remaining["10"] + remaining["A"]
        IN  IF R = 0 THEN ret = [num |-> 0, den |-> 1]
            ELSE ret.den # 0 /\ ret.num * R = B * ret.den

\* C8: calculate_probability_of_bust() returns exactly 1.0 for every player hand
\* whose total is >= 21, whatever the remaining inventory, also for a total of
\* exactly 21 and an exhausted shoe.
C8_BustCertainFrom21 ==
    (op.name = "calculate_probability_of_bust" /\ get_player_hand_value(game).total >= 21) =>
        ret = [num |-> 1, den |-> 1]

C8_Witness ==
    /\ op.name = "calculate_probability_of_bust"
    /\ get_player_hand_value(game).total = 21
    /\ CardsDealtSoFar(game) = 52 * game.num_decks
    /\ ret = [num |-> 1, den |-> 1]

\* the hand total with every ace counted 1, and the numbers of aces that can be
\* counted 11 without passing 21
AcesAsOne(hand) == SumValues(hand) - 10 * CountAces(hand)

FittingElevens(hand) == {j \in 0..CountAces(hand) : AcesAsOne(hand) + 10 * j <= 21}

BestElevens(hand) ==
    IF FittingElevens(hand) = {} THEN 0
    ELSE CHOOSE j \in FittingElevens(hand) : \A i \in FittingElevens(hand) : i <= j

\* C9: get_player_hand_value() returns as total the largest value <= 21 that
\* counting each ace as 1 or 11 can give, if there is one, otherwise the total
\* with every ace counted 1, and as ace count the number of aces still counted 11.
C9_HandValue ==
    op.name = "get_player_hand_value" =>
        /\ ret.total = AcesAsOne(game.player_hand) + 10 * BestElevens(game.player_hand)
        /\ ret.aces = BestElevens(game.player_hand)

C9_Witness ==
    /\ op.name = "get_player_hand_value"
    /\ CountAces(game.player_hand) >= 2
    /\ ret.aces = 1
    /\ ret.total = 21

C12_FailedParseChangesNothing ==
    (/\ op.name \in {"add_dealt_card", "add_to_player_hand", "set_dealer_upcard"}
     /\ Card(op.arg) = ValueError)
    => /\ ret = [raised |-> "ValueError"]
       /\ game.dealt_cards = prev.dealt_cards
       /\ game.player_hand = prev.player_hand
       /\ game.dealer_upcard = prev.dealer_upcard
       /\ game.card_count = prev.card_count

\* set_dealer_upcard has failed on a Game that had an up-card and cards
C12_Witness ==
    /\ op.name = "set_dealer_upcard"
    /\ Card(op.arg) = ValueError
    /\ prev.dealer_upcard # NoCard
    /\ game.dealer_upcard = prev.dealer_upcard
    /\ game.player_hand # <<>>
    /\ game.card_count # 0

\* the tokens made of a rank followed by one suit letter and nothing else
WellFormedTokens ==
    {Chars(ranks[i]) \o <<suits[j]>> : i \in 1..Len(ranks), j \in 1..Len(suits)}

\* C13: Card construction succeeds exactly for a rank in 2..10, J, Q, K, A
\* immediately followed by one suit letter in C, D, H, S and nothing else;
\* every other token is rejected with the format error.
C13_CardAcceptsExactlyWellFormed ==
    op.name = "Card" => ((ret # ValueError) <=> (op.arg \in WellFormedTokens))

\* the ranks of the player hand
HandRankSeq(g) == [i \in 1..Len(g.player_hand) |-> g.player_hand[i].rank]

\* an engine has returned a recommendation
Recommended(engine) == op.name = engine /\ "action" \in DOMAIN ret

\* C11: can_split() is true iff the player hand has exactly 2 cards and both
\* have the same rank string; it is false for every other hand size and for
\* two ten-valued cards of different rank.
C11_CanSplit ==
    op.name = "can_split" =>
       LET h == HandRankSeq(game)
       IN  /\ ret.can_split <=> (Len(h) = 2 /\ Cardinality({h[i] : i \in 1..Len(h)}) = 1)
           /\ Len(h) # 2 => ~ret.can_split
           /\ (/\ Len(h) = 2
               /\ h[1] # h[2]
               /\ rank_values[h[1]] = 10
               /\ rank_values[h[2]] = 10) => ~ret.can_split

\* can_split has answered for a 10 with a J
C11_Witness ==
    /\ op.name = "can_split"
    /\ HandRankSeq(game) = <<"10", "J">>
    /\ ret.can_split = FALSE

\* C14: get_recommendation on a Game whose player hand is empty or whose
\* dealer up-card is unset fails with an error and returns no recommendation.
C14_EngineRejectsIncompleteGame ==
    (/\ op.name \in {"BasicStrategy.get_recommendation",
                      "CountingStrategy.get_recommendation"}
     /\ (game.player_hand = <<>> \/ game.dealer_upcard = NoCard))
    => "action" \notin DOMAIN ret

\* the entry of a table, Hit when the table has none
Entry(table, key, dealer_value) ==
    IF key \in DOMAIN table THEN table[key][dealer_value] ELSE "H"

\* the action by the resolution order of C15: the pair table by the shared
\* rank (row "10" for 10, J, Q, K), else the soft table, else the hard table
ResolvedAction(g) ==
    LET hv == get_player_hand_value(g)
        dealer_value == g.dealer_upcard.value
        entry == IF can_split(g)
                 THEN Entry(pair_hands, Bucket(g.player_hand[1].rank), dealer_value)
                 ELSE IF hv.is_soft THEN Entry(soft_hands, hv.total, dealer_value)
                 ELSE Entry(hard_hands, hv.total, dealer_value)
    IN  IF entry = "D" /\ ~can_double_down(g) THEN "H" ELSE entry

\* C15: BasicStrategy resolves the action by first match: the pair-table
\* entry for the shared rank if can_split() holds, else the soft-table entry
\* if is_soft holds, else the hard-table entry.
C15_ResolutionOrder ==
    (Recommended("BasicStrategy.get_recommendation") /\ game.player_hand # <<>>)
    => ret.action = ResolvedAction(game)

\* the table entry BasicStrategy consults for a hand that is not a pair
ConsultedEntry(g) ==
    LET hv == get_player_hand_value(g)
        dealer_value == g.dealer_upcard.value
    IN  IF hv.is_soft /\ hv.total \in DOMAIN soft_hands
        THEN soft_hands[hv.total][dealer_value]
        ELSE Entry(hard_hands, hv.total, dealer_value)

\* C16: BasicStrategy never returns Double for a hand that does not have
\* exactly 2 cards; when the consulted table entry is Double for such a hand
\* the returned action is Hit.
C16_NoDoubleUnlessTwoCards ==
    (Recommended("BasicStrategy.get_recommendation") /\ Len(game.player_hand) # 2)
    => /\ ret.action # "D"
       /\ ConsultedEntry(game) = "D" => ret.action = "H"

\* a three-card hard 11 was downgraded from Double to Hit
C16_Witness ==
    /\ Recommended("BasicStrategy.get_recommendation")
    /\ Len(game.player_hand) = 3
    /\ get_player_hand_value(game).total = 11
    /\ ConsultedEntry(game) = "D"
    /\ ret.action = "H"

\* C17: for a two-card hand of identical ten-valued rank (10-10, J-J, Q-Q,
\* K-K) BasicStrategy returns Stand against every dealer up-card.
C17_TenPairsStand ==
    (/\ Recommended("BasicStrategy.get_recommendation")
     /\ Len(game.player_hand) = 2
     /\ game.player_hand[1].rank = game.player_hand[2].rank
     /\ game.player_hand[1].value = 10)
    => ret.action = "S"

\* C18: for the player hand [A, A] BasicStrategy returns Split against every
\* dealer up-card value 2..11.
C18_AcesSplit ==
    (/\ Recommended("BasicStrategy.get_recommendation")
     /\ HandRankSeq(game) = <<"A", "A">>)
    => ret.action = "P"

\* a pair of aces against a dealer ace
C18_Witness ==
    /\ Recommended("BasicStrategy.get_recommendation")
    /\ HandRankSeq(game) = <<"A", "A">>
    /\ game.dealer_upcard.value = 11
    /\ ret.action = "P"

TrueCountAtLeast(g, n) == get_true_count(g).num >= n * get_true_count(g).den

\* the condition of the k-th deviation rule of CountingStrategy, in the order
\* insurance, 16 vs 10, 15 vs 10, 10 vs Ace, 12 vs 3, 12 vs 2, 11 vs Ace,
\* 9 vs 2, 10-10 vs 5 or 6
RuleHolds(k, g) ==
    LET hv == get_player_hand_value(g)
        total == hv.total
        dv == g.dealer_upcard.value
        hard == ~hv.is_soft
        two == Len(g.player_hand) = 2
    IN  CASE k = 1 -> g.dealer_upcard.rank = "A" /\ TrueCountAtLeast(g, 3)
          [] k = 2 -> total = 16 /\ dv = 10 /\ hard /\ TrueCountAtLeast(g, 0)
          [] k = 3 -> total = 15 /\ dv = 10 /\ hard /\ TrueCountAtLeast(g, 4)
          [] k = 4 -> total = 10 /\ dv = 11 /\ two /\ TrueCountAtLeast(g, 4)
          [] k = 5 -> total = 12 /\ dv = 3 /\ hard /\ TrueCountAtLeast(g, 2)
          [] k = 6 -> total = 12 /\ dv = 2 /\ hard /\ TrueCountAtLeast(g, 3)
          [] k = 7 -> total = 11 /\ dv = 11 /\ two /\ TrueCountAtLeast(g, 1)
          [] k = 8 -> total = 9 /\ dv = 2 /\ two /\ TrueCountAtLeast(g, 1)
          [] k = 9 -> /\ two
                      /\ g.player_hand[1].rank = g.player_hand[2].rank
                      /\ g.player_hand[1].value = 10
                      /\ dv \in {5, 6}
                      /\ get_true_count(g).num <= -4 * get_true_count(g).den

\* the first rule whose condition holds, 0 when none does
FirstRule(g) ==
    IF \E k \in 1..9 : RuleHolds(k, g)
    THEN CHOOSE k \in 1..9 : RuleHolds(k, g) /\ \A j \in 1..(k - 1) : ~RuleHolds(j, g)
    ELSE 0

RuleAction(k, g) ==
    CASE k \in {0, 1} -> BasicStrategy_get_recommendation(g).action
      [] k \in {2, 3, 5, 6} -> "S"
      [] k \in {4, 7, 8} -> "D"
      [] k = 9 -> "P"

RuleText(k, g) ==
    CASE k = 0 -> "Follow basic strategy."
      [] k = 1 -> "Consider taking insurance"
      [] k = 2 -> "Stand with 16 vs 10"
      [] k = 3 -> "Stand with 15 vs 10"
      [] k = 4 -> "Double down with 10 vs A"
      [] k = 5 -> "Stand with 12 vs 3"
      [] k = 6 -> "Stand with 12 vs 2"
      [] k = 7 -> "Double down with 11 vs A"
      [] k = 8 -> "Double down with 9 vs 2"
      [] k = 9 -> IF g.dealer_upcard.value = 5 THEN "Split 10s vs 5" ELSE "Split 10s vs 6"

\* C20: CountingStrategy applies at most one deviation rule per call, the
\* first whose condition holds in the fixed order; when no rule's condition
\* holds the returned action is the action BasicStrategy returns.
C20_FirstDeviationOnly ==
    Recommended("CountingStrategy.get_recommendation") =>
       LET k == FirstRule(game)
       IN  /\ ret.action = RuleAction(k, game)
           /\ ret.explanation = RuleText(k, game)
           /\ ret.subsequent_advice.deviation = (k # 0)

\* insurance and the 10-vs-Ace double both apply; insurance, the earlier
\* rule, was taken and the action is the basic Hit
C20_Witness ==
    /\ Recommended("CountingStrategy.get_recommendation")
    /\ RuleHolds(1, game)
    /\ RuleHolds(4, game)
    /\ ret.explanation = "Consider taking insurance"
    /\ ret.action = "H"

\* the three engines' operations
Engines ==
    {"BasicStrategy.get_recommendation", "CountingStrategy.get_recommendation",
     "EnhancedStrategy.get_recommendation"}

\* the true count is at least n / d (d > 0)
TrueCountAtLeastFrac(g, n, d) ==
    d * get_true_count(g).num >= n * get_true_count(g).den

\* C21: whenever the dealer up-card is an Ace and the true count is at least
\* the engine's insurance threshold (3.0 for CountingStrategy, 2.5 for
\* EnhancedStrategy) the engine marks a deviation with the insurance
\* explanation and returns the action BasicStrategy returns.
C21_InsuranceKeepsBasicAction ==
    /\ (/\ Recommended("CountingStrategy.get_recommendation")
        /\ game.dealer_upcard.rank = "A"
        /\ TrueCountAtLeastFrac(game, 3, 1))
       => /\ ret.explanation = "Consider taking insurance"
          /\ ret.subsequent_advice.deviation
          /\ ret.action = BasicStrategy_get_recommendation(game).action
    /\ (/\ Recommended("EnhancedStrategy.get_recommendation")
        /\ game.dealer_upcard.rank = "A"
        /\ TrueCountAtLeastFrac(game, 5, 2))
       => /\ ret.explanation = "Consider taking insurance"
          /\ ret.subsequent_advice.deviation
          /\ ret.action = BasicStrategy_get_recommendation(game).action

\* EnhancedStrategy on a two-card 10 against an Ace at a high count: the
\* insurance explanation with the basic Hit
C21_Witness ==
    /\ Recommended("EnhancedStrategy.get_recommendation")
    /\ game.dealer_upcard.rank = "A"
    /\ TrueCountAtLeastFrac(game, 5, 2)
    /\ Len(game.player_hand) = 2
    /\ get_player_hand_value(game).total = 10
    /\ ret.explanation = "Consider taking insurance"
    /\ ret.action = "H"

C26_AcesSplitAtEveryCount ==
    (/\ \/ Recommended("CountingStrategy.get_recommendation")
        \/ Recommended("EnhancedStrategy.get_recommendation")
     /\ HandRankSeq(game) = <<"A", "A">>)
    => ret.action = "P"

\* C27: EnhancedStrategy returns Split for a splittable pair of ten-valued
\* cards against dealer 5 or 6 whenever the true count is <= -3.0, and for
\* 8-8 against dealer 10 with a true count >= 1.0 reports the split deviation.
C27_EnhancedPairSplits ==
    Recommended("EnhancedStrategy.get_recommendation") =>
       LET h == HandRankSeq(game)
           pair == Len(h) = 2 /\ h[1] = h[2]
       IN  /\ (/\ pair
               /\ game.player_hand[1].value = 10
               /\ game.dealer_upcard.value \in {5, 6}
               /\ get_true_count(game).num <= -3 * get_true_count(game).den)
              => ret.action = "P"
           /\ (/\ pair
               /\ h[1] = "8"
               /\ game.dealer_upcard.value = 10
               /\ TrueCountAtLeastFrac(game, 1, 1))
              => /\ ret.action = "P"
                 /\ ret.explanation = "Split 8s vs 10"
                 /\ ret.subsequent_advice.deviation

\* C28: for each of the three engines the returned action is one of H, S, D,
\* P; it is P only if can_split() holds and D only if can_double_down()
\* holds, also when it comes from a count deviation.
C28_ActionsAreAllowed ==
    (op.name \in Engines /\ "action" \in DOMAIN ret) =>
       LET h == HandRankSeq(game)
       IN  /\ ret.action \in {"H", "S", "D", "P"}
           /\ ret.action = "P" => (Len(h) = 2 /\ h[1] = h[2])
           /\ ret.action = "D" => Len(h) = 2

\* EnhancedStrategy has doubled a two-card 10 against a 10 by a deviation
C28_Witness ==
    /\ Recommended("EnhancedStrategy.get_recommendation")
    /\ ret.explanation = "Double on 10 vs 10"
    /\ ret.action = "D"
    /\ Len(game.player_hand) = 2
    /\ BasicStrategy_get_recommendation(game).action = "H"

RankCount(cards, rank) == Cardinality({i \in 1..Len(cards) : cards[i].rank = rank})

\* C24: after the GUI's next_hand the player hand is empty and the dealer
\* up-card unset, every card that was in the hand or the dealer slot is, by
\* rank, in dealt_cards, and the cards dealt so far and every bucket of
\* get_remaining_cards() are as immediately before next_hand.
C24_NextHandMovesCards ==
    op.name = "next_hand" =>
        /\ game.player_hand = <<>>
        /\ game.dealer_upcard = NoCard
        /\ \A r \in RankSet :
              RankCount(game.dealt_cards, r)
                = RankCount(prev.dealt_cards, r) + RankCount(prev.player_hand, r)
                  + (IF prev.dealer_upcard # NoCard /\ prev.dealer_upcard.rank = r
                     THEN 1 ELSE 0)
        /\ CardsDealtSoFar(game) = CardsDealtSoFar(prev)
        /\ \A k \in RemainingKeySet :
              get_remaining_cards(game)[k] = get_remaining_cards(prev)[k]

\* next_hand has moved a hand of two cards and an up-card
C24_Witness ==
    /\ op.name = "next_hand"
    /\ Len(prev.player_hand) >= 2
    /\ prev.dealer_upcard # NoCard
    /\ Len(game.dealt_cards) = Len(prev.dealt_cards) + Len(prev.player_hand) + 1
    /\ game.player_hand = <<>>

\* C25: in every reachable state get_remaining_cards() has exactly the keys
\* 2..9, 10 and A, each with 4*num_decks (16*num_decks for key 10) minus the
\* number of cards of that rank in dealt_cards, player_hand and the dealer
\* up-card, J, Q and K taken from key 10; so the values sum to
\* 52*num_decks - the cards dealt so far.
C25_RemainingInventory ==
    LET remaining == get_remaining_cards(game)
        held == game.dealt_cards \o game.player_hand
                \o (IF game.dealer_upcard = NoCard THEN <<>> ELSE <<game.dealer_upcard>>)
        HeldIn(ranks_of_key) ==
            Cardinality({i \in 1..Len(held) : held[i].rank \in ranks_of_key})
    IN  /\ DOMAIN remaining = {"2", "3", "4", "5", "6", "7", "8", "9", "10", "A"}
        /\ \A k \in {"2", "3", "4", "5", "6", "7", "8", "9", "A"} :
              remaining[k] = 4 * game.num_decks - HeldIn({k})
        /\ remaining["10"] = 16 * game.num_decks - HeldIn({"10", "J", "Q", "K"})
        /\ remaining["2"] + remaining["3"] + remaining["4"] + remaining["5"]
             + remaining["6"] + remaining["7"] + remaining["8"] + remaining["9"]
             + remaining["10"] + remaining["A"]
               = 52 * game.num_decks - CardsDealtSoFar(game)

\* a king in each of the three places
C25_Witness ==
    /\ RankCount(game.dealt_cards, "K") >= 1
    /\ RankCount(game.player_hand, "K") >= 1
    /\ game.dealer_upcard # NoCard
    /\ game.dealer_upcard.rank = "K"
    /\ get_remaining_cards(game)["10"] <= 16 * game.num_decks - 3

====
